---- MODULE Spec2Model ----
(***************************************************************************)
(* Best-first search over a lazy heap of sorted iterators.                 *)
(*                                                                         *)
(*   heap.py    LazyHeapSingleThread, LazyHeapMultithread                  *)
(*   search.py  best_first_search and its _iterate generator               *)
(*   a_star.py  get_neighbor, the sorted producer of the example           *)
(***************************************************************************)
EXTENDS Integers, Sequences, FiniteSets, TLC

(***************************************************************************)
(* Bounds of the model.                                                    *)
(***************************************************************************)
NumNodes == 3
MaxWeight == 1
MaxIters == 4
MaxPush == 2
MaxSeqLen == 2
MaxCost == 2
MaxThreads == 2

\* Python's None, for an Optional[int] or Optional[Cost] (costs are >= 0).
None == -1

\* The largest initial_cost the model draws.
MaxInitCost == 1

Nodes == 1..NumNodes

\* best_first_search(initial_cost, initial_node, ...): the start node.
initial_node == 1

VARIABLES
    W,               \* the caller's graph: W[a][b] is the weight of a -> b, or None
    goal,            \* the set of nodes is_solution accepts
    initial_cost,    \* best_first_search(initial_cost, ...)
    memoize_bound,   \* best_first_search(..., memoize_bound)
    n_max_iters,     \* best_first_search(..., n_max_iters), or None
    n_thread,        \* best_first_search(..., n_thread)
    heap,            \* self.heap: the set of entries (cost, index, node, rest)
    index,           \* self.index
    node2best_cost,  \* the memo table of one search call
    pc,              \* where the calling thread is
    n_iter,          \* the loop counter of best_first_search
    heapitem,        \* what the last pop returned
    yielded,         \* the triples best_first_search has yielded so far
    pushed,          \* the sequences the caller pushed, in push order
    popped,          \* what the caller's pop calls returned, in order
    pushAfterPop,    \* whether a push followed a pop
    memoRun,         \* the outcome of an earlier call made with the memo
    calls,           \* how many push, pop and stop calls the frontier has served
    tasks,           \* the work items submitted to self.internal_threads
    futures,         \* self.futures: the deque of task handles
    lock_heap,       \* self.lock_heap: "free", or who holds it
    waiting,         \* the task whose result() the caller blocks on
    fut_i,           \* the place of stop()'s loop in self.futures
    shutdown         \* whether shutdown() of the pool has begun

vars == <<W, goal, initial_cost, memoize_bound, n_max_iters, n_thread,
          heap, index, node2best_cost, pc, n_iter, heapitem, yielded,
          pushed, popped, pushAfterPop, memoRun, calls,
          tasks, futures, lock_heap, waiting, fut_i, shutdown>>

params == <<W, goal, initial_cost, memoize_bound, n_max_iters, n_thread>>
driverVars == <<n_iter, yielded>>
historyVars == <<pushed, popped, pushAfterPop, memoRun>>
callerVars == <<pushed, popped, pushAfterPop, memoRun, calls>>
poolVars == <<tasks, futures, lock_heap, waiting, fut_i, shutdown>>

(***************************************************************************)
(* Values.                                                                 *)
(***************************************************************************)
Last(s) == s[Len(s)]

\* What pop returns: a (cost, node) pair, or None.
Item(c, n) == [cost |-> c, node |-> n]
NoItem == [cost |-> None, node |-> <<>>]

\* A frontier just made: no call yet.
NoCalls == [push |-> 0, pop |-> 0, stop |-> 0]

\* One more call of the kind op has been served.
Called(op) == [calls EXCEPT ![op] = @ + 1]

\* iter([...]) over a list of (cost, node) pairs.
ListIter(items) ==
    [kind |-> "list", items |-> items, cost |-> 0, nodes |-> <<>>, pos |-> 0]

\* An iterator over a list of pairs whose producer raises an error (not
\* StopIteration) once the pairs are spent.
RaisingIter(items) ==
    [kind |-> "raising", items |-> items, cost |-> 0, nodes |-> <<>>,
     pos |-> 0]

\* Mutant: the generator started from the initial cost, the cost of the
\* path so far forgotten.
GenIterFromStart(cost, nodes) ==
    [kind |-> "gen", items |-> <<>>, cost |-> initial_cost, nodes |-> nodes,
     pos |-> 0]

\* The generator _iterate(cost, nodes), not yet started.
GenIter(cost, nodes) ==
    [kind |-> "gen", items |-> <<>>, cost |-> cost, nodes |-> nodes, pos |-> 0]

\* operator.add, the cost_add of the example.
cost_add(a, b) == a + b

\* Tuples (cost, x) compare by cost first, as Python compares tuples.
PairLeq(p, q) == p[1] < q[1] \/ (p[1] = q[1] /\ p[2] <= q[2])

RECURSIVE SortPairs(_)
SortPairs(S) ==
    IF S = {} THEN <<>>
    ELSE LET m == CHOOSE p \in S : \A q \in S : PairLeq(p, q)
         IN <<m>> \o SortPairs(S \ {m})

\* get_neighbor: the (weight, neighbour) pairs of n, sorted.
get_sorted_neighbor_iterator(n) ==
    SortPairs({<<W[n][m], m>> : m \in {x \in Nodes : W[n][x] # None}})

\* Mutant: the memo test with the comparison turned round.
DominatedFlipped(memo, node, cost_total) ==
    memo[node] # None /\ memo[node] >= cost_total

\* Mutant: the memo as a visited set, whatever the cost recorded.
DominatedSeen(memo, node, cost_total) ==
    memo[node] # None

\* The memo test of _iterate: a recorded cost <= cost_total dominates.
Dominated(memo, node, cost_total) ==
    memo[node] # None /\ memo[node] <= cost_total

(***************************************************************************)
(* One pass of an iterator: "stop" (StopIteration), "raise" (another       *)
(* error of the producer), "skip" (the continue of _iterate: the candidate *)
(* is dominated) or "emit" (a pair is about to be yielded; _iterate        *)
(* records it in the memo first).                                          *)
(***************************************************************************)
IterPeek(it, memo) ==
    IF it.kind # "gen"
    THEN IF it.pos >= Len(it.items)
         THEN [tag |-> IF it.kind = "raising" THEN "raise" ELSE "stop",
               cost |-> None, node |-> <<>>, key |-> 0, it |-> it]
         ELSE [tag |-> "emit", cost |-> it.items[it.pos + 1].cost,
               node |-> it.items[it.pos + 1].node, key |-> 0,
               it |-> [it EXCEPT !.pos = @ + 1]]
    ELSE LET nb == get_sorted_neighbor_iterator(Last(it.nodes)) IN
         IF it.pos >= Len(nb)
         THEN [tag |-> "stop", cost |-> None, node |-> <<>>, key |-> 0,
               it |-> it]
         ELSE LET _cost == nb[it.pos + 1][1]
                  _node == nb[it.pos + 1][2]
                  cost_total == cost_add(it.cost, _cost)
              IN [tag |-> IF memoize_bound /\ Dominated(memo, _node, cost_total)
                          THEN "skip" ELSE "emit",
                  cost |-> cost_total,
                  node |-> Append(it.nodes, _node),
                  key |-> _node,
                  it |-> [it EXCEPT !.pos = @ + 1]]

\* node2best_cost[_node] = cost_total, for a pair _iterate emits.
Record(memo, p) ==
    IF memoize_bound /\ p.key # 0 THEN [memo EXCEPT ![p.key] = p.cost] ELSE memo

\* next(it) run to its end on one thread: the pair yielded (ok) or
\* StopIteration (err: another error), the iterator afterwards and the memo
\* afterwards.
RECURSIVE IterNext(_, _)
IterNext(it, memo) ==
    LET p == IterPeek(it, memo) IN
    CASE p.tag \in {"stop", "raise"} ->
           [ok |-> FALSE, err |-> p.tag = "raise", cost |-> None,
            node |-> <<>>, it |-> p.it, memo |-> memo]
      [] p.tag = "skip" -> IterNext(p.it, memo)
      [] OTHER ->
           [ok |-> TRUE, err |-> FALSE, cost |-> p.cost, node |-> p.node,
            it |-> p.it, memo |-> Record(memo, p)]

(***************************************************************************)
(* heapq on tuples (cost, index, node, rest): index is unique, so the      *)
(* order of two entries is decided by (cost, index).                       *)
(***************************************************************************)
Entry(c, i, n, rest) == [cost |-> c, index |-> i, node |-> n, rest |-> rest]

\* Mutant: entries ordered by index alone (a plain FIFO queue).
EntryLeqFifo(e, f) == e.index <= f.index

EntryLeq(e, f) == e.cost < f.cost \/ (e.cost = f.cost /\ e.index <= f.index)

\* heappush
heappush(h, e) == h \cup {e}

\* Mutant: the entry read and left in the heap (heap[0] for heappop).
HeapKept(h, e) == h

\* The heap once heappop has removed e.
HeapRest(h, e) == h \ {e}

\* Mutant: the largest entry (a max-heap).
HeapMax(h) == CHOOSE e \in h : \A f \in h : EntryLeq(f, e)

\* The entry heappop removes: the smallest.
HeapMin(h) == CHOOSE e \in h : \A f \in h : EntryLeq(e, f)

(***************************************************************************)
(* LazyHeapSingleThread.                                                   *)
(***************************************************************************)
\* push(sorted_iterator)
SeqPush(h, idx, memo, it) ==
    LET r == IterNext(it, memo) IN
    IF r.ok
    THEN [heap |-> heappush(h, Entry(r.cost, idx, r.node, r.it)),
          index |-> idx + 1, memo |-> r.memo]
    ELSE [heap |-> h, index |-> idx, memo |-> r.memo]

\* Mutant: pop that forgets the rest of the sequence it popped from.
SeqPopDropsRest(h, idx, memo) ==
    IF h = {}
    THEN [ret |-> NoItem, heap |-> h, index |-> idx, memo |-> memo]
    ELSE LET e == HeapMin(h)
         IN [ret |-> Item(e.cost, e.node), heap |-> HeapRest(h, e),
             index |-> idx, memo |-> memo]

\* pop()
SeqPop(h, idx, memo) ==
    IF h = {}
    THEN [ret |-> NoItem, heap |-> h, index |-> idx, memo |-> memo]
    ELSE LET e == HeapMin(h)
             r == IterNext(e.rest, memo)
         IN IF r.ok
            THEN [ret |-> Item(e.cost, e.node),
                  heap |-> heappush(HeapRest(h, e),
                                    Entry(r.cost, idx, r.node, r.it)),
                  index |-> idx + 1, memo |-> r.memo]
            ELSE [ret |-> Item(e.cost, e.node), heap |-> HeapRest(h, e),
                  index |-> idx, memo |-> r.memo]

(***************************************************************************)
(* LazyHeapMultithread: the pool's work items.  A task is one call of      *)
(* _internal_push(sorted_iterator); its place in tasks is its handle.      *)
(*   pending    submitted, not started                                     *)
(*   running    inside next(sorted_iterator)                               *)
(*   emit       _iterate passed the memo test and is about to record       *)
(*   got        holds (cost_next, node_next), waits for lock_heap          *)
(*   done       returned;  cancelled: cancel() came before its start       *)
(*   pushed     did heappush inside "with self.lock_heap", before          *)
(*              self.index += 1                                            *)
(*   failed     ended by an error other than StopIteration, which its      *)
(*              handle keeps                                               *)
(* lock tells whether the task's thread holds self.lock_heap.              *)
(***************************************************************************)
Task(it) ==
    [st |-> "pending", it |-> it, cost |-> None, node |-> <<>>, key |-> 0,
     lock |-> FALSE]

\* A task that returned: its frame, and the iterator it held, are gone.
Finished ==
    [st |-> "done", it |-> ListIter(<<>>), cost |-> None, node |-> <<>>,
     key |-> 0, lock |-> FALSE]

\* A task whose next(sorted_iterator) raised what _internal_push does not
\* catch: the heap is not touched, the handle holds the error.
Failed ==
    [st |-> "failed", it |-> ListIter(<<>>), cost |-> None, node |-> <<>>,
     key |-> 0, lock |-> FALSE]

Live == {"running", "emit", "got", "pushed"}

\* Future.done()
FutDone(t) == tasks[t].st \in {"done", "cancelled", "failed"}

\* self.futures.append(self.internal_threads.submit(self._internal_push, it))
Submit(it) ==
    /\ tasks' = Append(tasks, Task(it))
    /\ futures' = Append(futures, Len(tasks) + 1)

\* heap.push(it), on the frontier LazyHeap.new(n_thread) made
HeapPush(it) ==
    IF n_thread <= 0
    THEN LET r == SeqPush(heap, index, node2best_cost, it)
         IN /\ heap' = r.heap
            /\ index' = r.index
            /\ node2best_cost' = r.memo
            /\ UNCHANGED <<tasks, futures>>
    ELSE /\ Submit(it)
         /\ UNCHANGED <<heap, index, node2best_cost>>

\* Mutant: stop() without the return that follows it: the loop goes on.
HeapStopNoReturn == pc' = "pop" /\ fut_i' = fut_i

\* heap.stop(): nothing on the sequential frontier; on the concurrent one
\* the loop over self.futures begins.
HeapStop ==
    IF n_thread <= 0
    THEN pc' = "done" /\ fut_i' = fut_i
    ELSE pc' = "cancel" /\ fut_i' = 1

\* A worker thread takes the oldest work item of the queue.
TaskStart(t) ==
    /\ tasks[t].st = "pending"
    /\ \A u \in 1..(t - 1) : tasks[u].st # "pending"
    /\ Cardinality({u \in 1..Len(tasks) : tasks[u].st \in Live}) < n_thread
    /\ tasks' = [tasks EXCEPT ![t].st = "running"]
    /\ UNCHANGED <<params, heap, index, node2best_cost, pc, driverVars,
                   heapitem, callerVars, futures, lock_heap, waiting, fut_i,
                   shutdown>>

\* next(sorted_iterator), one pass: exhausted, a dominated candidate
\* skipped, or a pair to yield (after the memo is written, when there is one).
TaskStep(t) ==
    /\ tasks[t].st = "running"
    /\ LET p == IterPeek(tasks[t].it, node2best_cost) IN
       tasks' = [tasks EXCEPT ![t] =
           CASE p.tag = "stop" -> Finished
             [] p.tag = "raise" -> Failed
             [] p.tag = "skip" -> [@ EXCEPT !.it = p.it]
             [] OTHER ->
                  [st |-> IF memoize_bound /\ p.key # 0 THEN "emit" ELSE "got",
                   it |-> p.it, cost |-> p.cost, node |-> p.node,
                   key |-> p.key, lock |-> tasks[t].lock]]
    /\ UNCHANGED <<params, heap, index, node2best_cost, pc, driverVars,
                   heapitem, callerVars, futures, lock_heap, waiting, fut_i,
                   shutdown>>

\* node2best_cost[_node] = cost_total; yield
TaskRecord(t) ==
    /\ tasks[t].st = "emit"
    /\ node2best_cost' = Record(node2best_cost, tasks[t])
    /\ tasks' = [tasks EXCEPT ![t].st = "got"]
    /\ UNCHANGED <<params, heap, index, pc, driverVars, heapitem, callerVars,
                   futures, lock_heap, waiting, fut_i, shutdown>>

\* with self.lock_heap: heappush(...); self.index += 1
TaskInsert(t) ==
    /\ tasks[t].st = "got"
    /\ lock_heap = "free"
    /\ heap' = heappush(heap, Entry(tasks[t].cost, index, tasks[t].node,
                                    tasks[t].it))
    /\ index' = index + 1
    /\ tasks' = [tasks EXCEPT ![t] = Finished]
    /\ UNCHANGED <<params, node2best_cost, pc, driverVars, heapitem,
                   callerVars, futures, lock_heap, waiting, fut_i, shutdown>>

\* The worker threads: any task may take its next step.
WorkerStart == \E t \in 1..Len(tasks) : TaskStart(t)
WorkerStep == \E t \in 1..Len(tasks) : TaskStep(t)
WorkerRecord == \E t \in 1..Len(tasks) : TaskRecord(t)
WorkerInsert == \E t \in 1..Len(tasks) : TaskInsert(t)

(***************************************************************************)
(* LazyHeapMultithread.pop, step by step on the calling thread.            *)
(***************************************************************************)
\* lock_heap.acquire(); if not self.heap: ... : None is returned with the
\* lock still held.
MTPopCheck ==
    /\ pc = "pop"
    /\ n_thread > 0
    /\ lock_heap = "free"
    /\ IF heap = {}
       THEN IF Len(futures) = 0
            THEN /\ heapitem' = NoItem
                 /\ lock_heap' = "caller"
                 /\ pc' = "test"
                 /\ calls' = Called("pop")
            ELSE /\ pc' = "drain"
                 /\ UNCHANGED <<heapitem, lock_heap, calls>>
       ELSE /\ pc' = "take"
            /\ UNCHANGED <<heapitem, lock_heap, calls>>
    /\ UNCHANGED <<params, heap, index, node2best_cost, driverVars, historyVars,
                   tasks, futures, waiting, fut_i, shutdown>>

\* One turn of "while self.futures": a finished handle is dropped; an
\* unfinished one is dropped too and the handle after it is awaited, which
\* is an IndexError of the deque when there is none.
MTPopDrain ==
    /\ pc = "drain"
    /\ IF futures = <<>>
       THEN pc' = "pop" /\ UNCHANGED <<futures, waiting>>
       ELSE IF FutDone(Head(futures))
            THEN /\ futures' = Tail(futures)
                 /\ UNCHANGED <<pc, waiting>>
            ELSE IF Len(futures) = 1
                 THEN /\ futures' = <<>>
                      /\ pc' = "error"
                      /\ UNCHANGED waiting
                 ELSE /\ waiting' = futures[2]
                      /\ futures' = Tail(Tail(futures))
                      /\ pc' = "wait"
    /\ UNCHANGED <<params, heap, index, node2best_cost, driverVars, heapitem,
                   callerVars, tasks, lock_heap, fut_i, shutdown>>

\* .result() returns once the awaited task has finished; it raises the
\* error of a task that failed (pop ends with the producer's error), and
\* CancelledError for a cancelled one.
MTPopWait ==
    /\ pc = "wait"
    /\ FutDone(waiting)
    /\ pc' = CASE tasks[waiting].st = "cancelled" -> "error"
              [] tasks[waiting].st = "failed" -> "raised"
              [] OTHER -> "pop"
    /\ waiting' = 0
    /\ UNCHANGED <<params, heap, index, node2best_cost, driverVars, heapitem,
                   callerVars, tasks, futures, lock_heap, fut_i, shutdown>>

\* with self.lock_heap: heappop, submit the rest; return (cost, node)
MTPopTake ==
    /\ pc = "take"
    /\ lock_heap = "free"
    /\ LET e == HeapMin(heap)
       IN /\ heap' = HeapRest(heap, e)
          /\ Submit(e.rest)
          /\ heapitem' = Item(e.cost, e.node)
    /\ pc' = "test"
    /\ calls' = Called("pop")
    /\ UNCHANGED <<params, index, node2best_cost, driverVars, historyVars,
                   lock_heap, waiting, fut_i, shutdown>>

(***************************************************************************)
(* A caller of the frontier alone: it pushes finite sequences of           *)
(* (cost, node) pairs and pops.  The node of an item names the sequence    *)
(* it came from and its place there.                                       *)
(***************************************************************************)
CostSeqs == UNION {[1..n -> 1..MaxCost] : n \in 0..MaxSeqLen}

Labelled(cs, k) == [j \in 1..Len(cs) |-> Item(cs[j], <<k, j>>)]

Ascending(items) ==
    \A i \in 1..Len(items) : \A j \in i..Len(items) :
        items[i].cost <= items[j].cost

\* No earlier call.
NoRun == [ended |-> FALSE, cost |-> None, n_iter |-> None, index |-> None]

\* LazyHeapMultithread.__init__: no task, the lock free, the pool open.
InitPool ==
    /\ tasks = <<>>
    /\ futures = <<>>
    /\ lock_heap = "free"
    /\ waiting = 0
    /\ fut_i = 0
    /\ shutdown = FALSE

NoGraph == [a \in Nodes |-> [b \in Nodes |-> None]]

InitCaller ==
    /\ W = NoGraph
    /\ goal = {}
    /\ initial_cost = 0
    /\ memoize_bound = FALSE
    /\ n_max_iters = None
    /\ heap = {}
    /\ index = 0
    /\ node2best_cost = [n \in Nodes |-> None]
    /\ pc = "idle"
    /\ n_iter = 0
    /\ heapitem = NoItem
    /\ yielded = <<>>
    /\ pushed = <<>>
    /\ popped = <<>>
    /\ pushAfterPop = FALSE
    /\ memoRun = NoRun
    /\ calls = NoCalls
    /\ InitPool

\* The caller has been told the frontier is exhausted.
GotNone == popped # <<>> /\ Last(popped) = NoItem

InitSeqHeap == InitCaller /\ n_thread = 0

\* heap.push(iter(items))
CallPush ==
    /\ pc = "idle"
    /\ Len(pushed) < MaxPush
    /\ \E cs \in CostSeqs :
         LET items == Labelled(cs, Len(pushed) + 1)
         IN /\ HeapPush(ListIter(items))
            /\ pushed' = Append(pushed, items)
    /\ pushAfterPop' = (pushAfterPop \/ popped # <<>>)
    /\ calls' = Called("push")
    /\ UNCHANGED <<params, pc, driverVars, heapitem, popped, memoRun,
                   lock_heap, waiting, fut_i, shutdown>>

\* heap.pop() on the sequential frontier
SeqCallPop ==
    /\ pc = "idle"
    /\ ~GotNone
    /\ LET r == SeqPop(heap, index, node2best_cost)
       IN /\ heap' = r.heap
          /\ index' = r.index
          /\ heapitem' = r.ret
          /\ popped' = Append(popped, r.ret)
    /\ calls' = Called("pop")
    /\ UNCHANGED <<params, node2best_cost, pc, driverVars, pushed, pushAfterPop,
                   memoRun, poolVars>>

NextSeqHeap == CallPush \/ SeqCallPop

SpecSeqHeap == InitSeqHeap /\ [][NextSeqHeap]_vars

(***************************************************************************)
(* The same caller on the concurrent frontier, with its worker threads.    *)
(***************************************************************************)
InitMTHeap == InitCaller /\ n_thread \in 1..MaxThreads

\* the caller enters heap.pop()
MTCallPop ==
    /\ pc = "idle"
    /\ ~GotNone
    /\ pc' = "pop"
    /\ UNCHANGED <<params, heap, index, node2best_cost, driverVars, heapitem,
                   callerVars, poolVars>>

\* heap.pop() returns to the caller
MTCallReturn ==
    /\ pc = "test"
    /\ popped' = Append(popped, heapitem)
    /\ pc' = "idle"
    /\ UNCHANGED <<params, heap, index, node2best_cost, driverVars, heapitem,
                   pushed, pushAfterPop, memoRun, calls, poolVars>>


NextMTHeap ==
    \/ CallPush
    \/ MTCallPop
    \/ MTCallReturn
    \/ MTPopCheck
    \/ MTPopDrain
    \/ MTPopWait
    \/ MTPopTake
    \/ WorkerStart
    \/ WorkerStep
    \/ WorkerInsert

SpecMTHeap == InitMTHeap /\ [][NextMTHeap]_vars

(***************************************************************************)
(* The caller of the concurrent frontier when a producer may fail.         *)
(***************************************************************************)
\* heap.push(it) for an iterator that raises once its items are spent
CallPushRaising ==
    /\ pc = "idle"
    /\ Len(pushed) < MaxPush
    /\ \E cs \in CostSeqs :
         LET items == Labelled(cs, Len(pushed) + 1)
         IN /\ HeapPush(RaisingIter(items))
            /\ pushed' = Append(pushed, items)
    /\ pushAfterPop' = (pushAfterPop \/ popped # <<>>)
    /\ calls' = Called("push")
    /\ UNCHANGED <<params, pc, driverVars, heapitem, popped, memoRun,
                   lock_heap, waiting, fut_i, shutdown>>

NextMTRaise ==
    \/ CallPush
    \/ CallPushRaising
    \/ MTCallPop
    \/ MTCallReturn
    \/ MTPopCheck
    \/ MTPopDrain
    \/ MTPopWait
    \/ MTPopTake
    \/ WorkerStart
    \/ WorkerStep
    \/ WorkerInsert

SpecMTRaise == InitMTHeap /\ [][NextMTRaise]_vars

(***************************************************************************)
(* The concurrent frontier with every acquire and release of lock_heap a   *)
(* step of its own, and heappush apart from self.index += 1.               *)
(***************************************************************************)
\* Mutant: an acquire that does not wait for the lock.
LockIgnored == TRUE

\* Lock.acquire() returns only when no thread holds the lock.
LockFree == lock_heap = "free"

\* Mutant: the lock taken around next(sorted_iterator) as well.
AcquireEarly(t) == tasks[t].st \in {"running", "got"}

\* _internal_push enters "with self.lock_heap" after next() has returned.
AcquirePoint(t) == tasks[t].st = "got"

\* with self.lock_heap: (entry)
TaskAcquire(t) ==
    /\ AcquirePoint(t)
    /\ ~tasks[t].lock
    /\ LockFree
    /\ lock_heap' = "worker"
    /\ tasks' = [tasks EXCEPT ![t].lock = TRUE]
    /\ UNCHANGED <<params, heap, index, node2best_cost, pc, driverVars,
                   heapitem, callerVars, futures, waiting, fut_i, shutdown>>

\* heappush(self.heap, (cost_next, self.index, node_next, sorted_iterator))
TaskHeappush(t) ==
    /\ tasks[t].st = "got"
    /\ tasks[t].lock
    /\ heap' = heappush(heap, Entry(tasks[t].cost, index, tasks[t].node,
                                    tasks[t].it))
    /\ tasks' = [tasks EXCEPT ![t].st = "pushed"]
    /\ UNCHANGED <<params, index, node2best_cost, pc, driverVars, heapitem,
                   callerVars, futures, lock_heap, waiting, fut_i, shutdown>>

\* self.index += 1, and the end of "with self.lock_heap"
TaskIncrement(t) ==
    /\ tasks[t].st = "pushed"
    /\ index' = index + 1
    /\ lock_heap' = "free"
    /\ tasks' = [tasks EXCEPT ![t] = Finished]
    /\ UNCHANGED <<params, heap, node2best_cost, pc, driverVars, heapitem,
                   callerVars, futures, waiting, fut_i, shutdown>>

WorkerAcquire == \E t \in 1..Len(tasks) : TaskAcquire(t)
WorkerHeappush == \E t \in 1..Len(tasks) : TaskHeappush(t)
WorkerIncrement == \E t \in 1..Len(tasks) : TaskIncrement(t)

\* pop: self.lock_heap.acquire()
LkPopAcquire ==
    /\ pc = "pop"
    /\ LockFree
    /\ lock_heap' = "caller"
    /\ pc' = "held"
    /\ UNCHANGED <<params, heap, index, node2best_cost, driverVars, heapitem,
                   callerVars, tasks, futures, waiting, fut_i, shutdown>>

\* pop: if not self.heap: ... return None (the lock kept), or release()
LkPopTest ==
    /\ pc = "held"
    /\ IF heap = {} /\ Len(futures) = 0
       THEN /\ heapitem' = NoItem
            /\ pc' = "test"
            /\ calls' = Called("pop")
            /\ UNCHANGED lock_heap
       ELSE /\ lock_heap' = "free"
            /\ pc' = IF heap = {} THEN "drain" ELSE "take"
            /\ UNCHANGED <<heapitem, calls>>
    /\ UNCHANGED <<params, heap, index, node2best_cost, driverVars, historyVars,
                   tasks, futures, waiting, fut_i, shutdown>>

\* pop: with self.lock_heap: (entry)
LkPopTakeAcquire ==
    /\ pc = "take"
    /\ LockFree
    /\ lock_heap' = "caller"
    /\ pc' = "taking"
    /\ UNCHANGED <<params, heap, index, node2best_cost, driverVars, heapitem,
                   callerVars, tasks, futures, waiting, fut_i, shutdown>>

\* pop: heappop, submit the rest, the end of "with"; return (cost, node)
LkPopTake ==
    /\ pc = "taking"
    /\ LET e == HeapMin(heap)
       IN /\ heap' = HeapRest(heap, e)
          /\ Submit(e.rest)
          /\ heapitem' = Item(e.cost, e.node)
    /\ lock_heap' = "free"
    /\ pc' = "test"
    /\ calls' = Called("pop")
    /\ UNCHANGED <<params, index, node2best_cost, driverVars, historyVars,
                   waiting, fut_i, shutdown>>

NextMTLock ==
    \/ CallPush
    \/ MTCallPop
    \/ MTCallReturn
    \/ LkPopAcquire
    \/ LkPopTest
    \/ MTPopDrain
    \/ MTPopWait
    \/ LkPopTakeAcquire
    \/ LkPopTake
    \/ WorkerStart
    \/ WorkerStep
    \/ WorkerAcquire
    \/ WorkerHeappush
    \/ WorkerIncrement

SpecMTLock == InitMTHeap /\ [][NextMTLock]_vars

(***************************************************************************)
(* best_first_search, on the sequential frontier (n_thread = 0).           *)
(***************************************************************************)
Weights == {None} \cup 0..MaxWeight

\* The caller's graphs: weighted, directed, no self loops.
Graphs ==
    {g \in [Nodes -> [Nodes -> Weights]] : \A n \in Nodes : g[n][n] = None}

\* n_max_iters: None only with the memo, which makes the search finite.
IterCaps(memo) == (IF memo THEN {None} ELSE {}) \cup 0..MaxIters

InitSearch ==
    /\ W \in Graphs
    /\ goal \in SUBSET Nodes
    /\ initial_cost \in 0..MaxInitCost
    /\ memoize_bound \in BOOLEAN
    /\ n_max_iters \in IterCaps(memoize_bound)
    /\ heap = {}
    /\ index = 0
    /\ node2best_cost = [n \in Nodes |-> None]
    /\ pc = "start"
    /\ n_iter = 0
    /\ heapitem = NoItem
    /\ yielded = <<>>
    /\ pushed = <<>>
    /\ popped = <<>>
    /\ pushAfterPop = FALSE
    /\ memoRun = NoRun
    /\ calls = NoCalls
    /\ InitPool

InitSeqSearch == InitSearch /\ n_thread = 0

\* is_solution(nodes[-1])
is_solution(n) == n \in goal

\* Mutant: the cap test off by one.
TooManyItersLate == n_max_iters # None /\ n_iter > n_max_iters

\* n_max_iters is not None and n_iter >= n_max_iters
TooManyIters == n_max_iters # None /\ n_iter >= n_max_iters

\* heap.push(iter([(initial_cost, (initial_node,))]))
DriverSeed ==
    /\ pc = "start"
    /\ HeapPush(ListIter(<<Item(initial_cost, <<initial_node>>)>>))
    /\ pc' = "pop"
    /\ calls' = Called("push")
    /\ UNCHANGED <<params, driverVars, heapitem, historyVars, lock_heap,
                   waiting, fut_i, shutdown>>

\* heapitem = heap.pop()
SeqDriverPop ==
    /\ pc = "pop"
    /\ n_thread <= 0
    /\ LET r == SeqPop(heap, index, node2best_cost)
       IN /\ heap' = r.heap
          /\ index' = r.index
          /\ node2best_cost' = r.memo
          /\ heapitem' = r.ret
    /\ pc' = "test"
    /\ calls' = Called("pop")
    /\ UNCHANGED <<params, driverVars, historyVars, poolVars>>

\* Too many iterations: heap.stop(); return
DriverCapStop ==
    /\ pc = "test"
    /\ TooManyIters
    /\ HeapStop
    /\ calls' = Called("stop")
    /\ UNCHANGED <<params, heap, index, node2best_cost, driverVars, heapitem,
                   historyVars, tasks, futures, lock_heap, waiting, shutdown>>

\* No more to search: heap.stop(); return
DriverExhausted ==
    /\ pc = "test"
    /\ ~TooManyIters
    /\ heapitem = NoItem
    /\ HeapStop
    /\ calls' = Called("stop")
    /\ UNCHANGED <<params, heap, index, node2best_cost, driverVars, heapitem,
                   historyVars, tasks, futures, lock_heap, waiting, shutdown>>

\* Not a solution: heap.push(_iterate(cost, nodes)); continue
DriverExpand ==
    /\ pc = "test"
    /\ ~TooManyIters
    /\ heapitem # NoItem
    /\ ~is_solution(Last(heapitem.node))
    /\ HeapPush(GenIter(heapitem.cost, heapitem.node))
    /\ n_iter' = n_iter + 1
    /\ pc' = "pop"
    /\ calls' = Called("push")
    /\ UNCHANGED <<params, yielded, heapitem, historyVars, lock_heap, waiting,
                   fut_i, shutdown>>

\* A solution: yield (cost, n_iter, nodes)
DriverYield ==
    /\ pc = "test"
    /\ ~TooManyIters
    /\ heapitem # NoItem
    /\ is_solution(Last(heapitem.node))
    /\ yielded' = Append(yielded, [cost |-> heapitem.cost, n_iter |-> n_iter,
                                   nodes |-> heapitem.node])
    /\ n_iter' = n_iter + 1
    /\ pc' = "pop"
    /\ UNCHANGED <<params, heap, index, node2best_cost, heapitem, callerVars,
                   poolVars>>

NextSeqSearch ==
    \/ DriverSeed
    \/ SeqDriverPop
    \/ DriverCapStop
    \/ DriverExhausted
    \/ DriverExpand
    \/ DriverYield

Spec == InitSeqSearch /\ [][NextSeqSearch]_vars

(***************************************************************************)
(* LazyHeapMultithread.stop, step by step on the calling thread.           *)
(***************************************************************************)
\* for fut in self.futures: fut.cancel(), one handle a step: only a task
\* that has not started is cancelled.  Then internal_threads.shutdown().
MTStopCancel ==
    /\ pc = "cancel"
    /\ IF fut_i > Len(futures)
       THEN /\ shutdown' = TRUE
            /\ pc' = "join"
            /\ UNCHANGED <<tasks, fut_i>>
       ELSE /\ tasks' = IF tasks[futures[fut_i]].st = "pending"
                        THEN [tasks EXCEPT ![futures[fut_i]].st = "cancelled"]
                        ELSE tasks
            /\ fut_i' = fut_i + 1
            /\ UNCHANGED <<shutdown, pc>>
    /\ UNCHANGED <<params, heap, index, node2best_cost, driverVars, heapitem,
                   callerVars, futures, lock_heap, waiting>>

\* shutdown(wait=True) returns when the workers have run the queue dry.
MTStopJoin ==
    /\ pc = "join"
    /\ \A t \in 1..Len(tasks) : FutDone(t)
    /\ pc' = "done"
    /\ UNCHANGED <<params, heap, index, node2best_cost, driverVars, heapitem,
                   callerVars, poolVars>>

(***************************************************************************)
(* best_first_search on the concurrent frontier (n_thread > 0).            *)
(***************************************************************************)
\* The graphs searched with threads: no edge leads back to the start.
MTGraphs == {g \in Graphs : \A n \in Nodes : g[n][initial_node] = None}

InitMTSearch ==
    /\ InitSearch
    /\ W \in MTGraphs
    /\ initial_node \notin goal
    /\ initial_cost = 0
    /\ memoize_bound
    /\ n_max_iters \in IterCaps(TRUE)
    /\ n_thread \in 1..MaxThreads

NextMTSearch ==
    \/ DriverSeed
    \/ MTPopCheck
    \/ MTPopDrain
    \/ MTPopWait
    \/ MTPopTake
    \/ DriverCapStop
    \/ DriverExhausted
    \/ DriverExpand
    \/ DriverYield
    \/ MTStopCancel
    \/ MTStopJoin
    \/ WorkerStart
    \/ WorkerStep
    \/ WorkerRecord
    \/ WorkerInsert

SpecMTSearch == InitMTSearch /\ [][NextMTSearch]_vars

(***************************************************************************)
(* The cost of the cheapest path from the initial node to each node, and   *)
(* to a solution: the reference the search is judged against.              *)
(***************************************************************************)
Min(S) == CHOOSE x \in S : \A y \in S : x <= y

RECURSIVE Relax(_, _)
Relax(d, k) ==
    IF k = 0 THEN d
    ELSE Relax([n \in Nodes |->
                  LET via == {cost_add(d[m], W[m][n]) :
                                m \in {x \in Nodes : d[x] # None /\ W[x][n] # None}}
                      all == via \cup (IF d[n] # None THEN {d[n]} ELSE {})
                  IN IF all = {} THEN None ELSE Min(all)],
               k - 1)

PathCost ==
    Relax([n \in Nodes |-> IF n = initial_node THEN initial_cost ELSE None],
          NumNodes)

\* The minimum total cost over all paths to a solution; None without one.
OptCost ==
    LET S == {PathCost[g] : g \in {x \in goal : PathCost[x] # None}}
    IN IF S = {} THEN None ELSE Min(S)

(***************************************************************************)
(* C1: with n_thread = 0 and memoize_bound = true the first triple yielded *)
(* carries the minimum total cost over all paths from the initial node to  *)
(* a solution; and an uncapped search that ends without yielding has no    *)
(* solution to find.                                                       *)
(***************************************************************************)
C1_FirstYieldOptimal ==
    (n_thread = 0 /\ memoize_bound) =>
        /\ yielded # <<>> => yielded[1].cost = OptCost
        /\ (pc = "done" /\ n_max_iters = None /\ yielded = <<>>)
              => OptCost = None

\* A two-step path was yielded first although a direct, dearer edge to a
\* solution exists.
C1_Witness ==
    /\ n_thread = 0 /\ memoize_bound
    /\ yielded # <<>>
    /\ Len(yielded[1].nodes) = 3
    /\ \E g \in goal :
         /\ W[initial_node][g] # None
         /\ cost_add(initial_cost, W[initial_node][g]) > yielded[1].cost

(***************************************************************************)
(* C4: the triples yielded with n_thread = 0 are in non-decreasing order   *)
(* of cost.                                                                *)
(***************************************************************************)
C4_YieldsNonDecreasing ==
    n_thread = 0 =>
        \A i \in 1..Len(yielded) : \A j \in i..Len(yielded) :
            yielded[i].cost <= yielded[j].cost

\* Two solutions of different cost were yielded.
C4_Witness ==
    /\ n_thread = 0
    /\ Len(yielded) >= 2
    /\ yielded[1].cost < yielded[2].cost

\* n_iter, the number of popped entries processed so far, stays within the
\* cap, and so does every yielded iteration index.
C6_CapInv ==
    n_max_iters # None =>
        /\ n_iter <= n_max_iters
        /\ \A i \in 1..Len(yielded) : yielded[i].n_iter < n_max_iters

(***************************************************************************)
(* C6: with n_max_iters = k at most k popped entries are processed         *)
(* (n_iter counts them), every yielded iteration index is below k, and     *)
(* the driver that finds the cap reached returns.                          *)
(***************************************************************************)
C6_IterationCap ==
    /\ []C6_CapInv
    /\ [][(pc = "test" /\ n_max_iters # None /\ n_iter >= n_max_iters)
             => pc' = "done"]_vars

\* The search returned at the cap holding a popped solution it never yielded.
C6_Witness ==
    /\ pc = "done"
    /\ n_max_iters # None /\ n_max_iters > 0
    /\ n_iter = n_max_iters
    /\ heapitem # NoItem
    /\ is_solution(Last(heapitem.node))
    /\ yielded = <<>>

\* Every pushed sequence is ascending by cost.
AllAscending == \A k \in 1..Len(pushed) : Ascending(pushed[k])

\* The costs of the items returned so far never decrease.
PoppedNonDecreasing ==
    \A i \in 1..Len(popped) : \A j \in i..Len(popped) :
        (popped[i] # NoItem /\ popped[j] # NoItem)
            => popped[i].cost <= popped[j].cost

(***************************************************************************)
(* C7: on the sequential frontier, for ascending sequences all pushed      *)
(* before the first pop, the costs successive pops return never decrease.  *)
(***************************************************************************)
C7_SeqPopNonDecreasing ==
    (n_thread = 0 /\ AllAscending /\ ~pushAfterPop) => PoppedNonDecreasing

\* Three pops that took items of two sequences, the costs rising.
C7_Witness ==
    /\ n_thread = 0 /\ AllAscending /\ ~pushAfterPop
    /\ Len(popped) >= 3
    /\ popped[3] # NoItem
    /\ popped[1].node[1] # popped[2].node[1]
    /\ popped[1].cost < popped[3].cost

(***************************************************************************)
(* The same problem searched twice, as a caller that takes the first       *)
(* solution does: with memoize_bound = True (and no cap), then with        *)
(* memoize_bound = False and n_max_iters = MaxIters, which keeps the       *)
(* second search finite.                                                   *)
(***************************************************************************)
InitPrune ==
    /\ InitSearch
    /\ n_thread = 0
    /\ memoize_bound
    /\ n_max_iters = None

\* next(best_first_search(..., memoize_bound=False, n_max_iters=MaxIters))
\* once the first call has yielded or ended.
SecondCall ==
    /\ ~memoRun.ended
    /\ yielded # <<>> \/ pc = "done"
    /\ memoRun' = [ended |-> TRUE,
                   cost |-> IF yielded # <<>> THEN yielded[1].cost ELSE None,
                   n_iter |-> IF yielded # <<>> THEN yielded[1].n_iter ELSE None,
                   index |-> index]
    /\ memoize_bound' = FALSE
    /\ n_max_iters' = MaxIters
    /\ heap' = {}
    /\ index' = 0
    /\ node2best_cost' = [n \in Nodes |-> None]
    /\ pc' = "start"
    /\ n_iter' = 0
    /\ heapitem' = NoItem
    /\ yielded' = <<>>
    /\ calls' = NoCalls
    /\ UNCHANGED <<W, goal, initial_cost, n_thread, pushed, popped,
                   pushAfterPop, poolVars>>

\* The caller asks for one solution only: nothing runs after the first yield.
NextPrune ==
    \/ (yielded = <<>> /\ DriverSeed)
    \/ (yielded = <<>> /\ SeqDriverPop)
    \/ (yielded = <<>> /\ DriverCapStop)
    \/ (yielded = <<>> /\ DriverExhausted)
    \/ (yielded = <<>> /\ DriverExpand)
    \/ (yielded = <<>> /\ DriverYield)
    \/ SecondCall

SpecPrune == InitPrune /\ [][NextPrune]_vars

(***************************************************************************)
(* C5: the first solution found without the memo costs what the first      *)
(* solution found with the memo costs; and when the search without the     *)
(* memo exhausts the frontier finding none, the search with the memo       *)
(* found none either.                                                      *)
(***************************************************************************)
C5_PruningKeepsFirstCost ==
    memoRun.ended =>
        /\ yielded # <<>> => memoRun.cost = yielded[1].cost
        /\ (pc = "done" /\ ~TooManyIters /\ yielded = <<>>)
              => memoRun.cost = None

\* Both calls yielded a path of two steps at the same iteration, and the
\* call without the memo had inserted more entries by then: the memo
\* pruned candidates on the way.
C5_Witness ==
    /\ memoRun.ended
    /\ yielded # <<>>
    /\ memoRun.cost = yielded[1].cost
    /\ yielded[1].n_iter = memoRun.n_iter
    /\ index > memoRun.index
    /\ Len(yielded[1].nodes) >= 3

(***************************************************************************)
(* What the sequential frontier returns for the same pushes: every         *)
(* sequence pushed, then pop called until it returns None.                 *)
(***************************************************************************)
RECURSIVE SeqPushAll(_, _, _, _)
SeqPushAll(seqs, k, h, idx) ==
    IF k > Len(seqs) THEN [heap |-> h, index |-> idx]
    ELSE LET r == SeqPush(h, idx, node2best_cost, ListIter(seqs[k]))
         IN SeqPushAll(seqs, k + 1, r.heap, r.index)

RECURSIVE SeqPopAll(_, _)
SeqPopAll(h, idx) ==
    LET r == SeqPop(h, idx, node2best_cost)
    IN IF r.ret = NoItem THEN <<NoItem>>
       ELSE <<r.ret>> \o SeqPopAll(r.heap, r.index)

SeqReference(seqs) ==
    LET f == SeqPushAll(seqs, 1, {}, 0) IN SeqPopAll(f.heap, f.index)

IsPrefix(a, b) ==
    /\ Len(a) <= Len(b)
    /\ \A i \in 1..Len(a) : a[i] = b[i]

(***************************************************************************)
(* C8: for ascending sequences pushed before the first pop, the results    *)
(* of the concurrent frontier's pops are non-decreasing in cost and are    *)
(* the results the sequential frontier returns, whatever the schedule.     *)
(***************************************************************************)
C8_MTMatchesSequential ==
    (n_thread > 0 /\ AllAscending /\ ~pushAfterPop) =>
        /\ PoppedNonDecreasing
        /\ IsPrefix(popped, SeqReference(pushed))

\* The positions in the results at which the item labelled node was returned.
ReturnedAt(node) == {q \in 1..Len(popped) : popped[q].node = node}

(***************************************************************************)
(* C9: when the heads of two pushed sequences cost the same, the head of   *)
(* the sequence pushed first is returned before the head of the other.     *)
(***************************************************************************)
C9_EqualCostFifo ==
    \A i \in 1..Len(pushed) : \A j \in (i + 1)..Len(pushed) :
        (/\ pushed[i] # <<>>
         /\ pushed[j] # <<>>
         /\ pushed[i][1].cost = pushed[j][1].cost)
        => \A q \in ReturnedAt(<<j, 1>>) :
               \E r \in ReturnedAt(<<i, 1>>) : r < q

\* The submitted tasks that are unstarted or running.
Unfinished == {t \in 1..Len(tasks) : ~FutDone(t)}

(***************************************************************************)
(* C10: the concurrent pop returns None only when the frontier is          *)
(* exhausted: the heap is empty and no submitted task is unstarted or      *)
(* running.                                                                *)
(***************************************************************************)
C10_NoneOnlyWhenExhausted ==
    (n_thread > 0 /\ pc = "test" /\ heapitem = NoItem) =>
        /\ heap = {}
        /\ Unfinished = {}

(***************************************************************************)
(* What best_first_search yields first with n_thread = 0 on the same       *)
(* problem: the driver's loop run on the sequential frontier.              *)
(***************************************************************************)
NoYield == [cost |-> None, n_iter |-> None, nodes |-> <<>>]

RECURSIVE SeqSearchFirst(_, _, _, _)
SeqSearchFirst(h, idx, memo, n) ==
    LET r == SeqPop(h, idx, memo) IN
    IF (n_max_iters # None /\ n >= n_max_iters) \/ r.ret = NoItem
    THEN NoYield
    ELSE IF is_solution(Last(r.ret.node))
         THEN [cost |-> r.ret.cost, n_iter |-> n, nodes |-> r.ret.node]
         ELSE LET q == SeqPush(r.heap, r.index, r.memo,
                               GenIter(r.ret.cost, r.ret.node))
              IN SeqSearchFirst(q.heap, q.index, q.memo, n + 1)

SeqFirstYield ==
    LET memo0 == [n \in Nodes |-> None]
        f == SeqPush({}, 0, memo0,
                     ListIter(<<Item(initial_cost, <<initial_node>>)>>))
    IN SeqSearchFirst(f.heap, f.index, f.memo, 0)

(***************************************************************************)
(* C2: the first solution yielded with n_thread > 0 has the cost and the   *)
(* path length of the first solution yielded with n_thread = 0, which is   *)
(* the optimal cost, and ends at a solution, whatever the schedule.        *)
(***************************************************************************)
C2_MTFirstYieldAsSequential ==
    (n_thread > 0 /\ n_max_iters = None /\ yielded # <<>>) =>
        /\ yielded[1].cost = OptCost
        /\ yielded[1].cost = SeqFirstYield.cost
        /\ Len(yielded[1].nodes) = Len(SeqFirstYield.nodes)
        /\ is_solution(Last(yielded[1].nodes))

(***************************************************************************)
(* C3: when no node reachable from the initial node is a solution, the     *)
(* search yields nothing and ends without an error, whatever the schedule. *)
(***************************************************************************)
C3_NoSolutionEndsQuietly ==
    OptCost = None => (yielded = <<>> /\ pc # "error")

(***************************************************************************)
(* C11: a pop on the concurrent frontier never fails with an internal      *)
(* error (such as taking a handle from the empty deque of handles): the    *)
(* calling thread is never left at the place where pop raised.             *)
(***************************************************************************)
C11_PopNeverFails ==
    n_thread > 0 => pc # "error"

(***************************************************************************)
(* C15: the cap test comes before the pop: a pop has returned for the      *)
(* iteration n_iter only when n_iter is below n_max_iters, so a search     *)
(* capped at k pops at most k times (never when k = 0).                    *)
(***************************************************************************)
C15_CapTestBeforePop ==
    (n_max_iters # None /\ pc = "test") => n_iter < n_max_iters

(***************************************************************************)
(* C16: with the memo, the cost recorded for a node is at most the cost of *)
(* every frontier entry whose path ends at that node: the entries in the   *)
(* heap and the seed entry of the initial node, once pushed.               *)
(***************************************************************************)
C16_MemoBoundsEntries ==
    memoize_bound =>
        \A n \in Nodes :
            node2best_cost[n] # None =>
                /\ \A e \in heap :
                     Last(e.node) = n => node2best_cost[n] <= e.cost
                /\ (n = initial_node /\ pc # "start")
                      => node2best_cost[n] <= initial_cost

(***************************************************************************)
(* C17: for any worker count the memo test and the memo write of a         *)
(* candidate act as one step, so the cost recorded for a node never        *)
(* increases and never disappears during a search.                         *)
(***************************************************************************)
C17_MemoNeverIncreases ==
    [][\A n \in Nodes :
          node2best_cost[n] # None =>
              /\ node2best_cost'[n] # None
              /\ node2best_cost'[n] <= node2best_cost[n]]_vars

(***************************************************************************)
(* C13: once stop() has begun on the concurrent frontier (the driver is in *)
(* its cancel loop, in shutdown, or has returned) no step extends the      *)
(* heap.                                                                   *)
(***************************************************************************)
C13_NoInsertAfterStop ==
    [][(n_thread > 0 /\ pc \in {"cancel", "join", "done"}) => heap' = heap]_vars

(***************************************************************************)
(* C14: stop() called after pop has returned None returns: while it waits  *)
(* for the pool to shut down, no task is blocked on lock_heap held by the  *)
(* very thread that waits.                                                 *)
(***************************************************************************)
C14_StopReturns ==
    (n_thread > 0 /\ pc = "join") =>
        ~(lock_heap = "caller" /\ \E t \in 1..Len(tasks) : tasks[t].st = "got")

(***************************************************************************)
(* C12: the error of a producer is raised by a pop, never dropped: pop     *)
(* does not return None, as for an exhausted frontier, when a task has     *)
(* failed and its error has not been raised.                               *)
(***************************************************************************)
C12_ProducerErrorSurfaces ==
    (n_thread > 0 /\ pc = "test" /\ heapitem = NoItem) =>
        \A t \in 1..Len(tasks) : tasks[t].st # "failed"

\* The tasks whose thread is inside "with self.lock_heap".
Holders == {t \in 1..Len(tasks) : tasks[t].lock}

\* The calling thread is between an acquire and the release that follows.
CallerIn == pc \in {"held", "taking"}

(***************************************************************************)
(* C18: the heap and the counter are mutated under lock_heap only: never   *)
(* are two threads inside a locked region at once, a thread inside one     *)
(* holds the lock, and no sequence number is given to two entries.         *)
(***************************************************************************)
C18_MutationsUnderLock ==
    n_thread > 0 =>
        /\ Cardinality(Holders) + (IF CallerIn THEN 1 ELSE 0) <= 1
        /\ (Holders # {} \/ CallerIn) => lock_heap # "free"
        /\ \A e \in heap : \A f \in heap : e.index = f.index => e = f
        /\ \A e \in heap : e.index <= index

\* A task holds its pair and waits for the lock while another thread is
\* inside the locked region, two entries having been inserted before.
C18_Witness ==
    /\ n_thread > 1
    /\ index >= 2
    /\ lock_heap # "free"
    /\ \E t \in 1..Len(tasks) : tasks[t].st = "got" /\ ~tasks[t].lock

(***************************************************************************)
(* C19: no thread advances a sorted sequence (is inside next on the        *)
(* iterator) while it holds lock_heap.                                     *)
(***************************************************************************)
C19_NoLockAcrossProducer ==
    n_thread > 0 =>
        \A t \in 1..Len(tasks) :
            tasks[t].st \in {"running", "emit"} => ~tasks[t].lock

\* One task is inside next() while another one holds the lock.
C19_Witness ==
    /\ n_thread > 1
    /\ \E t \in 1..Len(tasks) : \E u \in 1..Len(tasks) :
         /\ tasks[t].st = "running"
         /\ tasks[u].lock

\* The heap entries that belong to the k-th pushed sequence.
EntriesOf(k) == {e \in heap : e.node[1] = k}

\* The advancement tasks, unstarted or in flight, that own the k-th pushed
\* sequence.
OwnersOf(k) ==
    {t \in 1..Len(tasks) :
        /\ tasks[t].st \in {"pending", "running", "emit", "got"}
        /\ tasks[t].it.items = pushed[k]}

\* Every item of the k-th pushed sequence has been returned by a pop.
Exhausted(k) ==
    LET last == <<k, Len(pushed[k])>>
    IN \/ \E q \in 1..Len(popped) : popped[q].node = last
       \/ heapitem.node = last

(***************************************************************************)
(* C20: after any pushes and pops every pushed sequence is in at most one  *)
(* place: one heap entry, or one unstarted or in-flight advancement task   *)
(* (on the concurrent frontier), or nowhere once all its items have been   *)
(* returned.                                                               *)
(***************************************************************************)
C20_OneActiveEntry ==
    \A k \in 1..Len(pushed) :
        pushed[k] # <<>> =>
            LET places == Cardinality(EntriesOf(k)) + Cardinality(OwnersOf(k))
            IN /\ places <= 1
               /\ places = 0 => Exhausted(k)

\* After a pop, one sequence waits in the heap while a task advances the
\* other one.
C20_Witness ==
    /\ n_thread > 0
    /\ Len(pushed) = 2
    /\ popped # <<>>
    /\ Cardinality(EntriesOf(1)) = 1
    /\ \E t \in OwnersOf(2) : tasks[t].st = "running" /\ tasks[t].it.pos = 1

\* cost_add folded over initial_cost and the weights of the first j - 1
\* steps of a path.
RECURSIVE FoldCost(_, _)
FoldCost(nodes, j) ==
    IF j <= 1 THEN initial_cost
    ELSE cost_add(FoldCost(nodes, j - 1), W[nodes[j - 1]][nodes[j]])

\* A triple whose path leads from the initial node to a solution along
\* edges of the graph and whose cost is the cost of that path.
ValidTriple(y) ==
    /\ Len(y.nodes) >= 1
    /\ y.nodes[1] = initial_node
    /\ is_solution(y.nodes[Len(y.nodes)])
    /\ \A j \in 1..(Len(y.nodes) - 1) : W[y.nodes[j]][y.nodes[j + 1]] # None
    /\ y.cost = FoldCost(y.nodes, Len(y.nodes))

\* Every triple yielded so far is valid.
AllTriplesValid == \A i \in 1..Len(yielded) : ValidTriple(yielded[i])

(***************************************************************************)
(* C21: every triple yielded has a path from the initial node to a         *)
(* solution, one successor a step, and the cost of that path folded with   *)
(* cost_add from initial_cost; its n_iter is the number of pops made       *)
(* before the pop that returned its entry.                                 *)
(***************************************************************************)
C21_YieldedTriplesValid ==
    /\ []AllTriplesValid
    /\ [][yielded' # yielded =>
             yielded'[Len(yielded')].n_iter = calls.pop - 1]_vars

\* A solution two steps away was yielded after others, its cost above the
\* initial cost.
C21_Witness ==
    /\ Len(yielded) >= 2
    /\ Len(yielded[2].nodes) = 3
    /\ yielded[2].cost > initial_cost
    /\ initial_cost > 0
    /\ yielded[2].n_iter >= 2

\* The driver is in heap.stop() or has returned after it.
Stopping == pc \in {"cancel", "join", "done"}

\* stop() has been called once exactly when the driver left its loop, and
\* never more than once.
StoppedOnce ==
    /\ calls.stop <= 1
    /\ Stopping <=> calls.stop = 1

(***************************************************************************)
(* C22: when the driver ends, at the cap or on a pop that returned None,   *)
(* it has called stop() on the frontier exactly once, and after that call  *)
(* it makes no push and no pop.                                            *)
(***************************************************************************)
C22_StopOnceThenNothing ==
    /\ []StoppedOnce
    /\ [][calls.stop > 0 =>
             /\ calls'.push = calls.push
             /\ calls'.pop = calls.pop
             /\ Stopping']_vars

\* The driver returned at the cap after a yield, stop() having cancelled a
\* task that had not started.
C22_Witness ==
    /\ n_thread > 0
    /\ pc = "done"
    /\ calls.stop = 1
    /\ calls.pop >= 3
    /\ yielded # <<>>
    /\ \E t \in 1..Len(tasks) : tasks[t].st = "cancelled"

\* How many pops have returned the j-th item of the k-th pushed sequence.
TimesReturned(k, j) ==
    Cardinality({q \in 1..Len(popped) : popped[q] = pushed[k][j]})

\* The j-th item of the k-th pushed sequence is still to come: the heap
\* holds an entry of that sequence at or before it.
StillHeld(k, j) == \E e \in heap : e.node[1] = k /\ e.node[2] <= j

\* Each item pushed has been returned once, or is still held and has not
\* been returned; and nothing else has been returned.
LosslessSoFar ==
    /\ \A k \in 1..Len(pushed) : \A j \in 1..Len(pushed[k]) :
         IF StillHeld(k, j) THEN TimesReturned(k, j) = 0
                            ELSE TimesReturned(k, j) = 1
    /\ \A q \in 1..Len(popped) :
         popped[q] # NoItem =>
             \E k \in 1..Len(pushed) : \E j \in 1..Len(pushed[k]) :
                 popped[q] = pushed[k][j]

\* The sequential frontier has lost and invented nothing so far.
SeqLossless == n_thread = 0 => LosslessSoFar

(***************************************************************************)
(* C23: the sequential frontier is a lossless merge.  Every item of every  *)
(* pushed sequence is returned exactly once, so when pop returns None      *)
(* after the pushes the results are all the items pushed; pushing an empty *)
(* sequence leaves heap and counter unchanged; pop returns None only on an *)
(* empty heap and leaves heap and counter unchanged.                       *)
(***************************************************************************)
C23_SeqLosslessMerge ==
    /\ []SeqLossless
    /\ [][(n_thread = 0 /\ pushed' # pushed /\ pushed'[Len(pushed')] = <<>>)
             => (heap' = heap /\ index' = index)]_vars
    /\ [][(n_thread = 0 /\ popped' # popped)
             => IF heap = {}
                THEN /\ popped'[Len(popped')] = NoItem
                     /\ heap' = heap
                     /\ index' = index
                ELSE popped'[Len(popped')] # NoItem]_vars

\* Two sequences of two items, one of them not ascending: all four items
\* were returned and then None.
C23_Witness ==
    /\ n_thread = 0
    /\ GotNone
    /\ heap = {}
    /\ Len(popped) = 5
    /\ \E k \in 1..Len(pushed) : ~Ascending(pushed[k])

(***************************************************************************)
(* C24: whenever pop of the concurrent frontier has returned to its        *)
(* caller, with an entry or with None, the calling thread does not hold    *)
(* lock_heap, so no advancement task waits for a lock that is never        *)
(* released.                                                               *)
(***************************************************************************)
C24_PopReleasesLock ==
    (n_thread > 0 /\ pc \in {"test", "idle"}) => lock_heap # "caller"

====
